---- MODULE Spec2Model ----
(***************************************************************************)
(* Lineage prediction from VCF files: the three pipeline scripts           *)
(*   lineage_predictor_v1.py  (single-sample, scores kept as "NN.NN%")     *)
(*   lineage_predictorV5.py   (single-sample, scores kept as floats)       *)
(*   lineage_predictor_v4.py  (joint / multi-sample, threshold policy)     *)
(* modelled as one state machine: main()'s loop over args.vcf_files, the   *)
(* extraction of positions, the scoring against lineage_references, the    *)
(* classification and the aggregation into all_results.                    *)
(*                                                                         *)
(* Text read from a file is a tuple of one-character strings, so that      *)
(* int(), str.split and str.startswith are computed character by           *)
(* character.  A line is the tuple of its tab-separated columns, that is   *)
(* line.strip().split("\t").  Lineage and sample identifiers are never     *)
(* parsed by the code and are plain strings.                               *)
(***************************************************************************)
EXTENDS Integers, Sequences, FiniteSets, TLC

VARIABLES
  variant,               \* which script runs: "v1", "V5" or "v4"
  lineage_references,    \* the catalog: dict lineage -> set of positions, in insertion order
  nfiles,                \* len(args.vcf_files)
  idx,                   \* files of args.vcf_files already consumed by main's for loop
  pc,                    \* "main", "rows", "row", "extract", "score", "done", "aborted"
  vcf_file,              \* single-sample mode: the file handed to process_vcf
  header,                \* joint mode: header, the split "#CHROM" line ([] when none)
  line,                  \* joint mode: the line the row loop is at, split on tabs
  sample_snps,           \* dict sample -> set of int positions
  lineage_probabilities, \* the score dict of the last scored sample, in catalog order
  results,               \* main's results / result: what the last process_* call returned
  all_results,           \* main's all_results
  exc,                   \* the last exception raised for the current file, "none" when none
  combined               \* the combined report file main writes at the end

vars == <<variant, lineage_references, nfiles, idx, pc, vcf_file, header, line,
          sample_snps, lineage_probabilities, results, all_results, exc, combined>>

----------------------------------------------------------------------------
(* Bounds of the model.                                                    *)

\* the longest batch: args.vcf_files holds 1..MaxFiles paths
MaxFiles == 2

\* the longest single-sample file, in lines
MaxLines == 2

----------------------------------------------------------------------------
(* Text helpers.                                                           *)

Range(s) == {s[i] : i \in 1..Len(s)}

Digits == <<"0", "1", "2", "3", "4", "5", "6", "7", "8", "9">>

IsDigit(c) == \E d \in 1..10 : Digits[d] = c

DigitVal(c) == (CHOOSE d \in 1..10 : Digits[d] = c) - 1

\* int(t) succeeds: here for the texts of the model (no sign, blank or underscore),
\* a non-empty run of decimal digits; anything else raises ValueError
IntParses(t) == Len(t) > 0 /\ \A i \in 1..Len(t) : IsDigit(t[i])

RECURSIVE ParseInt(_)
ParseInt(t) ==
  IF Len(t) = 0 THEN 0
  ELSE 10 * ParseInt(SubSeq(t, 1, Len(t) - 1)) + DigitVal(t[Len(t)])

RECURSIVE IntToStr(_)
IntToStr(n) ==
  IF n < 10 THEN <<Digits[n + 1]>>
  ELSE IntToStr(n \div 10) \o <<Digits[(n % 10) + 1]>>

\* str.split(sep) for a one-character separator: "" splits to [""]
RECURSIVE Split(_, _)
Split(s, sep) ==
  IF \E i \in 1..Len(s) : s[i] = sep
  THEN LET i == CHOOSE k \in 1..Len(s) : s[k] = sep /\ \A j \in 1..(k - 1) : s[j] # sep
       IN  <<SubSeq(s, 1, i - 1)>> \o Split(SubSeq(s, i + 1, Len(s)), sep)
  ELSE <<s>>

\* line.startswith("#"), on the split line: the first column starts with "#"
StartsWithHash(ln) == Len(ln) > 0 /\ Len(ln[1]) > 0 /\ ln[1][1] = "#"

----------------------------------------------------------------------------
(* The reference catalogs, as the dict literals of the three main()s.      *)

lineage_references_v4 ==
  <<
    [lineage |-> "lineage1", snp_set |-> {
       615938, 646531, 4398732, 272678, 3830566, 4081987, 3233605, 244550, 4081996, 1560912,
       812502, 3876953, 344288, 811492, 3647591, 2508395, 763886, 495473, 2897528, 1119739,
       4022652}],
    [lineage |-> "lineage2", snp_set |-> {
       1834177, 4243460, 811753, 518987, 282892, 4236237, 4308395, 2298194, 497491, 4290135,
       4050811, 4158493, 4254431}],
    [lineage |-> "lineage3", snp_set |-> {
       2840999, 633562, 3582694, 24007}],
    [lineage |-> "lineage4", snp_set |-> {
       1341624, 3381641, 3482432, 1170404}],
    [lineage |-> "lineage5", snp_set |-> {
       1911301, 352646, 1505806, 2304017, 4339610, 1097633, 2744225, 3840932, 801959,
       3882025, 1216822, 4399422, 4387392, 344258, 3603523, 2485956, 2516804, 910282,
       4086604, 1648089, 9566, 2463455, 1648224, 1145442, 1578212, 1555432, 1256176,
       1649265, 1799921, 1352566}],
    [lineage |-> "lineage6", snp_set |-> {
       1372002, 3862148, 3213255, 4086697, 4236891, 334445, 2427828, 507989, 2847737,
       1069146, 1867707, 3155164, 1886077}],
    [lineage |-> "lineage7", snp_set |-> {
       3009027, 1125894, 1365895, 349081, 1561245, 4070302, 22303, 2305184, 1867937,
       1513250, 4113054, 2303524, 3667883, 8876, 3603631, 2406193, 2086202, 2871227,
       1297084, 4308411, 2414272, 2759363, 2833478, 3324231, 3473482, 2385615, 4262608,
       2380244, 3182040, 3860696, 2913373, 1799774, 3225566, 1463776, 3635935, 2035938,
       2414434, 497126, 3360233, 1137518, 1237743, 73456, 2383599, 2999030, 811642, 3470461,
       2842238}],
    [lineage |-> "lineage8", snp_set |-> {
       2022784, 1704707, 1665285, 1914246, 1941256, 4410891, 3645324, 4074512, 343314,
       742270, 4227348, 3786517, 1391766, 4034711, 1505182, 3830815, 3840800, 2862497,
       4210592, 4254755, 1594788, 508454, 3569319, 459561, 2415402, 1505455, 2940079, 17333,
       1922231, 23098, 1446846, 2295359, 2466760, 765772, 2086736, 442577, 2939600, 3469397,
       2450263, 3333720, 3151706, 1391967, 1805152, 3074400, 2440802, 2306915, 1858921,
       595051, 1553399, 1227518}],
    [lineage |-> "lineage9", snp_set |-> {
       3094577, 3225892, 3370805, 3414553}],
    [lineage |-> "bovis", snp_set |-> {
       4038403, 354054, 652935, 2716806, 45193, 3371401, 3876953, 1647117, 2444952, 2643109,
       4034981, 62768, 3022532, 1800521, 1462220, 3623372, 2782927, 437465, 2844761, 648667,
       3723227, 4229470, 602207, 1137632, 3199071, 2767842, 3323617, 1344741, 1671658,
       1813494, 3667193, 905082, 1492605}],
    [lineage |-> "caprae", snp_set |-> {
       1673766, 422182, 649585, 2292409, 4398204}],
    [lineage |-> "dassie", snp_set |-> {
       557574, 4242313, 1663500, 2871821, 1751197, 4085665, 1226531, 3155107, 3062450,
       2909119, 3635392, 1218256, 1390170, 3392478, 2846051, 2825199, 271988, 1554550,
       2862458}],
    [lineage |-> "microtii", snp_set |-> {
       3688579, 5671, 2874797, 1364877, 247252, 1004570}],
    [lineage |-> "mungi", snp_set |-> {
       4268672, 2924039, 284041, 2022409, 24974, 437264, 3625360, 1256212, 270869, 64790,
       2747554, 2999330, 2018219, 2437426, 2686388, 333878, 1216954, 570683, 4409917,
       3180094, 73027, 1567814, 649036, 3326925, 45904, 4224851, 2937949, 2780127, 352481,
       4274530, 3829350, 2993651, 3372917, 2427519}],
    [lineage |-> "orygis", snp_set |-> {
       247300, 3337480, 1236745, 53899, 44812, 3061003, 1555342, 3598221, 3667352, 268953,
       3039261, 748320, 3148454, 1344807, 3058989, 4039853, 2486576, 2298548, 3562936,
       2296634, 2309820, 1579197, 3147196, 3155260, 4067010, 3241414, 3337675, 1449038,
       459600, 587601, 1490258, 498771, 2301395, 3770449, 1918811, 1125468, 6109, 2429276,
       8930, 1216738, 500710, 1652839, 634348, 1810542, 4069621, 1383800, 1834363, 4409725}],
    [lineage |-> "pinepedii", snp_set |-> {
       3337219, 1036936, 2301448, 736140, 2352292, 4161188, 458156, 1937070, 1648564,
       2301749, 28344, 1650257, 1650258, 1924695, 3090780, 3145957, 1391466, 2942959,
       918007, 348280, 458617, 2908666, 1577723, 3469951}],
    [lineage |-> "surricate", snp_set |-> {
       2914435, 1883911, 3343629, 3396110, 4049678, 3060380, 21664, 2428451, 4396201,
       1831339, 2762930, 1366453, 2410438, 344135, 3233351, 2716491, 765004, 495566, 741841,
       3233747, 2746981, 2872678, 1650665, 2069610, 763375, 3603697, 286579, 351101}]
  >>

lineage_references_V5 ==
  <<
    [lineage |-> "lineage1", snp_set |-> {
       615938, 646531, 4398732, 272678, 3830566, 4081987, 3233605, 244550, 4081996, 1560912,
       812502, 3876953, 344288, 811492, 3647591, 2508395, 763886, 495473, 2897528, 1119739,
       4022652}],
    [lineage |-> "l1_1", snp_set |-> {
       2989683, 4404247}],
    [lineage |-> "l1_2", snp_set |-> {
       4244420, 4049254, 2462700, 9260, 3561229, 1136017, 1553855}],
    [lineage |-> "l1_3", snp_set |-> {
       2763624, 3470377, 4238120}],
    [lineage |-> "lineage2", snp_set |-> {
       1834177, 4243460, 811753, 518987, 282892, 4236237, 4308395, 2298194, 497491, 4290135,
       4050811, 4158493, 4254431}],
    [lineage |-> "l2_2_1", snp_set |-> {
       3147511, 1565566, 2640807}],
    [lineage |-> "l2_2_2", snp_set |-> {
       3147511, 1565566, 2640807}],
    [lineage |-> "lineage3", snp_set |-> {
       2840999, 633562, 3582694, 24007}],
    [lineage |-> "l3_1_1", snp_set |-> {
       2467098, 2744388, 3023684}],
    [lineage |-> "l3_1_2", snp_set |-> {
       1914217, 3722702}],
    [lineage |-> "lineage4", snp_set |-> {
       1170404, 1341624, 3381641, 3482432}],
    [lineage |-> "l4_1", snp_set |-> {
       62657, 4340006, 2739174, 284623, 2020144}],
    [lineage |-> "l4_2", snp_set |-> {
       3198496, 3469694, 4073918, 1568018, 2441970, 1872211, 3666905, 1466779, 4291449,
       1670814}],
    [lineage |-> "l4_3", snp_set |-> {
       2621058, 764995, 1452071, 1389738, 4038287, 3191027}],
    [lineage |-> "l4_4", snp_set |-> {
       4238963}],
    [lineage |-> "l4_6", snp_set |-> {
       54304, 18091}],
    [lineage |-> "l4_8", snp_set |-> {
       1130526}],
    [lineage |-> "l4_9", snp_set |-> {
       8978, 1940611, 4165205, 1882573}],
    [lineage |-> "lineage5", snp_set |-> {
       1911301, 352646, 1505806, 2304017, 4339610, 1097633, 2744225, 3840932, 801959,
       3882025, 1216822, 4399422, 4387392, 344258, 3603523, 2485956, 2516804, 910282,
       4086604, 1648089, 9566, 2463455, 1648224, 1145442, 1578212, 1555432, 1256176,
       1649265, 1799921, 1352566}],
    [lineage |-> "lineage6", snp_set |-> {
       1372002, 3862148, 3213255, 4086697, 4236891, 334445, 2427828, 507989, 2847737,
       1069146, 1867707, 3155164, 1886077}],
    [lineage |-> "lineage7", snp_set |-> {
       3009027, 1125894, 1365895, 349081, 1561245, 4070302, 22303, 2305184, 1867937,
       1513250, 4113054, 2303524, 3667883, 8876, 3603631, 2406193, 2086202, 2871227,
       1297084, 4308411, 2414272, 2759363, 2833478, 3324231, 3473482, 2385615, 4262608,
       2380244, 3182040, 3860696, 2913373, 1799774, 3225566, 1463776, 3635935, 2035938,
       2414434, 497126, 3360233, 1137518, 1237743, 73456, 2383599, 2999030, 811642, 3470461,
       2842238}],
    [lineage |-> "lineage8", snp_set |-> {
       2022784, 1704707, 1665285, 1914246, 1941256, 4410891, 3645324, 4074512, 343314,
       742270, 4227348, 3786517, 1391766, 4034711, 1505182, 3830815, 3840800, 2862497,
       4210592, 4254755, 1594788, 508454, 3569319, 459561, 2415402, 1505455, 2940079, 17333,
       1922231, 23098, 1446846, 2295359, 2466760, 765772, 2086736, 442577, 2939600, 3469397,
       2450263, 3333720, 3151706, 1391967, 1805152, 3074400, 2440802, 2306915, 1858921,
       595051, 1553399, 1227518}],
    [lineage |-> "lineage9", snp_set |-> {
       3094577, 3225892, 3370805, 3414553}],
    [lineage |-> "bovis", snp_set |-> {
       4038403, 354054, 652935, 2716806, 45193, 3371401, 3876953, 1647117, 2444952, 2643109,
       4034981, 62768, 3022532, 1800521, 1462220, 3623372, 2782927, 437465, 2844761, 648667,
       3723227, 4229470, 602207, 1137632, 3199071, 2767842, 3323617, 1344741, 1671658,
       1813494, 3667193, 905082, 1492605}],
    [lineage |-> "caprae", snp_set |-> {
       1673766, 422182, 649585, 2292409, 4398204}],
    [lineage |-> "dassie", snp_set |-> {
       2271988, 557574, 1218256, 1226531, 1390170, 1554550, 1663500, 1751197, 2825199,
       2846051, 2862458, 2871821, 2909119, 3062450, 3155107, 3392478, 3635392, 4085665,
       4242313}],
    [lineage |-> "microtii", snp_set |-> {
       3688579, 5671, 2874797, 1364877, 247252, 1004570}],
    [lineage |-> "mungi", snp_set |-> {
       4268672, 2924039, 284041, 2022409, 24974, 437264, 3625360, 1256212, 270869, 64790,
       2747554, 2999330, 2018219, 2437426, 2686388, 333878, 1216954, 570683, 4409917,
       3180094, 73027, 1567814, 649036, 3326925, 45904, 4224851, 2937949, 2780127, 352481,
       4274530, 3829350, 2993651, 3372917, 2427519}],
    [lineage |-> "orygis", snp_set |-> {
       247300, 3337480, 1236745, 53899, 44812, 3061003, 1555342, 3598221, 3667352, 268953,
       3039261, 748320, 3148454, 1344807, 3058989, 4039853, 2486576, 2298548, 3562936,
       2296634, 2309820, 1579197, 3147196, 3155260, 4067010, 3241414, 3337675, 1449038,
       459600, 587601, 1490258, 498771, 2301395, 3770449, 1918811, 1125468, 6109, 2429276,
       8930, 1216738, 500710, 1652839, 634348, 1810542, 4069621, 1383800, 1834363, 4409725}],
    [lineage |-> "pinepedii", snp_set |-> {
       3337219, 1036936, 2301448, 736140, 2352292, 4161188, 458156, 1937070, 1648564,
       2301749, 28344, 1650257, 1650258, 1924695, 3090780, 3145957, 1391466, 2942959,
       918007, 348280, 458617, 2908666, 1577723, 3469951}],
    [lineage |-> "surricate", snp_set |-> {
       2914435, 1883911, 3343629, 3396110, 4049678, 3060380, 21664, 2428451, 4396201,
       1831339, 2762930, 1366453, 2410438, 344135, 3233351, 2716491, 765004, 495566, 741841,
       3233747, 2746981, 2872678, 1650665, 2069610, 763375, 3603697, 286579, 351101}]
  >>

lineage_references_v1 ==
  <<
    [lineage |-> "lineage1", snp_set |-> {
       615938, 646531, 4398732, 272678, 3830566, 4081987, 3233605, 244550, 4081996, 1560912,
       812502, 3876953, 344288, 811492, 3647591, 2508395, 763886, 495473, 2897528, 1119739,
       4022652}],
    [lineage |-> "lineage2", snp_set |-> {
       1834177, 4243460, 811753, 518987, 282892, 4236237, 4308395, 2298194, 497491, 4290135,
       4050811, 4158493, 4254431}],
    [lineage |-> "lineage3", snp_set |-> {
       2840999, 633562, 3582694, 24007}],
    [lineage |-> "lineage4", snp_set |-> {
       1170404, 1341624, 3381641, 3482432}],
    [lineage |-> "lineage5", snp_set |-> {
       1911301, 352646, 1505806, 2304017, 4339610, 1097633, 2744225, 3840932, 801959,
       3882025, 1216822, 4399422, 4387392, 344258, 3603523, 2485956, 2516804, 910282,
       4086604, 1648089, 9566, 2463455, 1648224, 1145442, 1578212, 1555432, 1256176,
       1649265, 1799921, 1352566}],
    [lineage |-> "lineage6", snp_set |-> {
       1372002, 3862148, 3213255, 4086697, 4236891, 334445, 2427828, 507989, 2847737,
       1069146, 1867707, 3155164, 1886077}],
    [lineage |-> "lineage7", snp_set |-> {
       3009027, 1125894, 1365895, 349081, 1561245, 4070302, 22303, 2305184, 1867937,
       1513250, 4113054, 2303524, 3667883, 8876, 3603631, 2406193, 2086202, 2871227,
       1297084, 4308411, 2414272, 2759363, 2833478, 3324231, 3473482, 2385615, 4262608,
       2380244, 3182040, 3860696, 2913373, 1799774, 3225566, 1463776, 3635935, 2035938,
       2414434, 497126, 3360233, 1137518, 1237743, 73456, 2383599, 2999030, 811642, 3470461,
       2842238}],
    [lineage |-> "lineage8", snp_set |-> {
       2022784, 1704707, 1665285, 1914246, 1941256, 4410891, 3645324, 4074512, 343314,
       742270, 4227348, 3786517, 1391766, 4034711, 1505182, 3830815, 3840800, 2862497,
       4210592, 4254755, 1594788, 508454, 3569319, 459561, 2415402, 1505455, 2940079, 17333,
       1922231, 23098, 1446846, 2295359, 2466760, 765772, 2086736, 442577, 2939600, 3469397,
       2450263, 3333720, 3151706, 1391967, 1805152, 3074400, 2440802, 2306915, 1858921,
       595051, 1553399, 1227518}],
    [lineage |-> "lineage9", snp_set |-> {
       3094577, 3225892, 3370805, 3414553}],
    [lineage |-> "bovis", snp_set |-> {
       4038403, 354054, 652935, 2716806, 45193, 3371401, 3876953, 1647117, 2444952, 2643109,
       4034981, 62768, 3022532, 1800521, 1462220, 3623372, 2782927, 437465, 2844761, 648667,
       3723227, 4229470, 602207, 1137632, 3199071, 2767842, 3323617, 1344741, 1671658,
       1813494, 3667193, 905082, 1492605}],
    [lineage |-> "caprae", snp_set |-> {
       1673766, 422182, 649585, 2292409, 4398204}],
    [lineage |-> "dassie", snp_set |-> {
       2271988, 557574, 1218256, 1226531, 1390170, 1554550, 1663500, 1751197, 2825199,
       2846051, 2862458, 2871821, 2909119, 3062450, 3155107, 3392478, 3635392, 4085665,
       4242313}],
    [lineage |-> "microtii", snp_set |-> {
       3688579, 5671, 2874797, 1364877, 247252, 1004570}],
    [lineage |-> "mungi", snp_set |-> {
       4268672, 2924039, 284041, 2022409, 24974, 437264, 3625360, 1256212, 270869, 64790,
       2747554, 2999330, 2018219, 2437426, 2686388, 333878, 1216954, 570683, 4409917,
       3180094, 73027, 1567814, 649036, 3326925, 45904, 4224851, 2937949, 2780127, 352481,
       4274530, 3829350, 2993651, 3372917, 2427519}],
    [lineage |-> "orygis", snp_set |-> {
       247300, 3337480, 1236745, 53899, 44812, 3061003, 1555342, 3598221, 3667352, 268953,
       3039261, 748320, 3148454, 1344807, 3058989, 4039853, 2486576, 2298548, 3562936,
       2296634, 2309820, 1579197, 3147196, 3155260, 4067010, 3241414, 3337675, 1449038,
       459600, 587601, 1490258, 498771, 2301395, 3770449, 1918811, 1125468, 6109, 2429276,
       8930, 1216738, 500710, 1652839, 634348, 1810542, 4069621, 1383800, 1834363, 4409725}],
    [lineage |-> "pinepedii", snp_set |-> {
       3337219, 1036936, 2301448, 736140, 2352292, 4161188, 458156, 1937070, 1648564,
       2301749, 28344, 1650257, 1650258, 1924695, 3090780, 3145957, 1391466, 2942959,
       918007, 348280, 458617, 2908666, 1577723, 3469951}],
    [lineage |-> "surricate", snp_set |-> {
       2914435, 1883911, 3343629, 3396110, 4049678, 3060380, 21664, 2428451, 4396201,
       1831339, 2762930, 1366453, 2410438, 344135, 3233351, 2716491, 765004, 495566, 741841,
       3233747, 2746981, 2872678, 1650665, 2069610, 763375, 3603697, 286579, 351101}]
  >>

\* the code points of the identifiers, for Python's str comparison
Ord(name) ==
  CASE name = "bovis" -> <<98, 111, 118, 105, 115>>
    [] name = "caprae" -> <<99, 97, 112, 114, 97, 101>>
    [] name = "dassie" -> <<100, 97, 115, 115, 105, 101>>
    [] name = "l1_1" -> <<108, 49, 95, 49>>
    [] name = "l1_2" -> <<108, 49, 95, 50>>
    [] name = "l1_3" -> <<108, 49, 95, 51>>
    [] name = "l2_2_1" -> <<108, 50, 95, 50, 95, 49>>
    [] name = "l2_2_2" -> <<108, 50, 95, 50, 95, 50>>
    [] name = "l3_1_1" -> <<108, 51, 95, 49, 95, 49>>
    [] name = "l3_1_2" -> <<108, 51, 95, 49, 95, 50>>
    [] name = "l4_1" -> <<108, 52, 95, 49>>
    [] name = "l4_2" -> <<108, 52, 95, 50>>
    [] name = "l4_3" -> <<108, 52, 95, 51>>
    [] name = "l4_4" -> <<108, 52, 95, 52>>
    [] name = "l4_6" -> <<108, 52, 95, 54>>
    [] name = "l4_8" -> <<108, 52, 95, 56>>
    [] name = "l4_9" -> <<108, 52, 95, 57>>
    [] name = "lineage1" -> <<108, 105, 110, 101, 97, 103, 101, 49>>
    [] name = "lineage2" -> <<108, 105, 110, 101, 97, 103, 101, 50>>
    [] name = "lineage3" -> <<108, 105, 110, 101, 97, 103, 101, 51>>
    [] name = "lineage4" -> <<108, 105, 110, 101, 97, 103, 101, 52>>
    [] name = "lineage5" -> <<108, 105, 110, 101, 97, 103, 101, 53>>
    [] name = "lineage6" -> <<108, 105, 110, 101, 97, 103, 101, 54>>
    [] name = "lineage7" -> <<108, 105, 110, 101, 97, 103, 101, 55>>
    [] name = "lineage8" -> <<108, 105, 110, 101, 97, 103, 101, 56>>
    [] name = "lineage9" -> <<108, 105, 110, 101, 97, 103, 101, 57>>
    [] name = "lineageA" -> <<108, 105, 110, 101, 97, 103, 101, 65>>
    [] name = "lineageB" -> <<108, 105, 110, 101, 97, 103, 101, 66>>
    [] name = "lineageC" -> <<108, 105, 110, 101, 97, 103, 101, 67>>
    [] name = "microtii" -> <<109, 105, 99, 114, 111, 116, 105, 105>>
    [] name = "mungi" -> <<109, 117, 110, 103, 105>>
    [] name = "orygis" -> <<111, 114, 121, 103, 105, 115>>
    [] name = "pinepedii" -> <<112, 105, 110, 101, 112, 101, 100, 105, 105>>
    [] name = "surricate" -> <<115, 117, 114, 114, 105, 99, 97, 116, 101>>

----------------------------------------------------------------------------
(* Scoring and classification.                                             *)
(* A formatted score "NN.NN%" is the integer number of hundredths of a     *)
(* percent it shows (1234 for "12.34%"); float(prob.strip("%")) of it is   *)
(* that number / 100.  A float score (m / n) * 100 is kept exactly, as the *)
(* pair [num |-> m, den |-> n].                                            *)

\* mutant: the size of the sample's set in place of the size of the intersection
MatchingCount_sample(snp_set, snps) == Cardinality(snps)

\* len(snp_set.intersection(snps))
MatchingCount(snp_set, snps) == Cardinality(snp_set \cap snps)

\* mutant: f"{(m / n) * 100:.0f}%", the nearest whole percent
Format2_whole(m, n) ==
  LET q == (100 * m) \div n
      r == (100 * m) % n
  IN  100 * (IF 2 * r > n \/ (2 * r = n /\ q % 2 = 1) THEN q + 1 ELSE q)

\* f"{(m / n) * 100:.2f}%": the nearest hundredth, a tie going to the even one
Format2(m, n) ==
  LET q == (10000 * m) \div n
      r == (10000 * m) % n
  IN  IF 2 * r > n \/ (2 * r = n /\ q % 2 = 1) THEN q + 1 ELSE q

\* a < b for two float scores
FloatLess(a, b) == a.num * b.den < b.num * a.den

\* a < b for two identifiers, as Python compares str: by code point, a proper
\* prefix first
StrLess(a, b) ==
  LET x == Ord(a)
      y == Ord(b)
  IN  \E k \in 1..(Len(y)) :
        /\ \A j \in 1..(k - 1) : j <= Len(x) /\ x[j] = y[j]
        /\ \/ k = Len(x) + 1
           \/ k <= Len(x) /\ x[k] < y[k]

RECURSIVE Insert(_, _)
Insert(x, s) ==
  IF s = <<>> THEN <<x>>
  ELSE IF StrLess(x, s[1]) THEN <<x>> \o s
  ELSE <<s[1]>> \o Insert(x, Tail(s))

\* sorted(names)
RECURSIVE Sorted(_)
Sorted(s) == IF s = <<>> THEN <<>> ELSE Insert(s[Len(s)], Sorted(SubSeq(s, 1, Len(s) - 1)))

\* sep.join(names)
RECURSIVE Join(_, _)
Join(s, sep) ==
  IF s = <<>> THEN ""
  ELSE IF Len(s) = 1 THEN s[1]
  ELSE s[1] \o sep \o Join(Tail(s), sep)

Lineages(refs) == [i \in 1..Len(refs) |-> refs[i].lineage]

\* joint mode: the loop over lineage_references.items() of process_joint_vcf
ScoresV4(refs, snps) ==
  [i \in 1..Len(refs) |->
     [lineage |-> refs[i].lineage,
      prob    |-> IF Cardinality(refs[i].snp_set) = 0 THEN 0
                  ELSE Format2(MatchingCount(refs[i].snp_set, snps),
                               Cardinality(refs[i].snp_set))]]

\* joint mode: the threshold / mixed-isolate decision
MatchingLineages(probs) ==
  LET hit == SelectSeq(probs, LAMBDA e : e.prob > 0)
  IN  [i \in 1..Len(hit) |-> hit[i].lineage]

\* mutant: the candidates joined in catalog order, without sorted()
PredictV4_unsorted(probs) ==
  LET matching_lineages == MatchingLineages(probs)
  IN  IF Len(matching_lineages) = 0 THEN "unknown_lineage"
      ELSE IF Len(matching_lineages) = 1 THEN matching_lineages[1]
      ELSE "mixed isolate: " \o Join(matching_lineages, ", ")

PredictV4(probs) ==
  LET matching_lineages == MatchingLineages(probs)
  IN  IF Len(matching_lineages) = 0 THEN "unknown_lineage"
      ELSE IF Len(matching_lineages) = 1 THEN matching_lineages[1]
      ELSE "mixed isolate: " \o Join(Sorted(matching_lineages), ", ")

\* dict keys keep the order of their first insertion
RECURSIVE KeysInOrder(_)
KeysInOrder(names) ==
  IF names = <<>> THEN <<>>
  ELSE LET front == KeysInOrder(SubSeq(names, 1, Len(names) - 1))
           last  == names[Len(names)]
       IN  IF last \in Range(front) THEN front ELSE Append(front, last)

\* joint mode: the results list, one dict per key of sample_snps
ResultsV4(refs, snps, sample_names) ==
  LET keys == KeysInOrder(sample_names)
  IN  [k \in 1..Len(keys) |->
         LET probs == ScoresV4(refs, snps[keys[k]])
         IN  [Sample_Name       |-> keys[k],
              probabilities     |-> probs,
              Predicted_lineage |-> PredictV4(probs)]]

\* V5: the float scores; a lineage with no marker divides by zero
DividesByZero(refs) == \E i \in 1..Len(refs) : Cardinality(refs[i].snp_set) = 0

ScoresV5(refs, snps) ==
  [i \in 1..Len(refs) |->
     [lineage |-> refs[i].lineage,
      num     |-> MatchingCount(refs[i].snp_set, snps),
      den     |-> Cardinality(refs[i].snp_set)]]

\* mutant: a later item replaces the best one when it merely equals it
RECURSIVE ArgMaxV5_last(_, _, _)
ArgMaxV5_last(probs, best, i) ==
  IF i > Len(probs) THEN best
  ELSE ArgMaxV5_last(probs, IF FloatLess(probs[i], probs[best]) THEN best ELSE i, i + 1)

\* V5: max(lineage_probabilities, key=...get): Python's max keeps the first item
\* that no later item exceeds
RECURSIVE ArgMaxV5(_, _, _)
ArgMaxV5(probs, best, i) ==
  IF i > Len(probs) THEN best
  ELSE ArgMaxV5(probs, IF FloatLess(probs[best], probs[i]) THEN i ELSE best, i + 1)

PredictV5(probs) ==
  LET top == probs[ArgMaxV5(probs, 1, 2)]
  IN  IF top.num = 0 THEN "unknown lineage" ELSE top.lineage

\* V5: output_text, the scores formatted in sorted(keys) order
OutputTextV5(sample_name, probs) ==
  LET keys == Sorted(Lineages(probs))
      at(name) == CHOOSE i \in 1..Len(probs) : probs[i].lineage = name
  IN  [Sample_Name       |-> sample_name,
       probabilities     |-> [k \in 1..Len(keys) |->
                                [lineage |-> keys[k],
                                 prob    |-> Format2(probs[at(keys[k])].num,
                                                     probs[at(keys[k])].den)]],
       Predicted_lineage |-> PredictV5(probs)]

\* v1: the scores, formatted when stored
ScoresV1(refs, snps) ==
  [i \in 1..Len(refs) |->
     [lineage |-> refs[i].lineage,
      prob    |-> Format2(MatchingCount(refs[i].snp_set, snps),
                          Cardinality(refs[i].snp_set))]]

ProbLess(a, b) == a.prob < b.prob

\* v1: max(lineage_probabilities, key=lambda k: float(...))
RECURSIVE ArgMaxV1(_, _, _)
ArgMaxV1(probs, best, i) ==
  IF i > Len(probs) THEN best
  ELSE ArgMaxV1(probs, IF ProbLess(probs[best], probs[i]) THEN i ELSE best, i + 1)

PredictV1(probs) ==
  LET top == probs[ArgMaxV1(probs, 1, 2)]
  IN  IF top.prob = 0 THEN "unknown_lineage" ELSE top.lineage

RecordV1(sample_name, probs) ==
  [Sample_Name       |-> sample_name,
   probabilities     |-> probs,
   Predicted_lineage |-> PredictV1(probs)]

----------------------------------------------------------------------------
(* The input files the model reads.                                        *)

\* position columns: a marker of lineage3 alone, one of lineage4 alone, one
\* shared by l2_2_1 and l2_2_2 (in no catalog but V5's), one shared by lineage1
\* and bovis, one that is no marker, one that is no integer, an empty one
Pos24007   == <<"2", "4", "0", "0", "7">>
Pos3482432 == <<"3", "4", "8", "2", "4", "3", "2">>
Pos1565566 == <<"1", "5", "6", "5", "5", "6", "6">>
Pos3876953 == <<"3", "8", "7", "6", "9", "5", "3">>
Pos7       == <<"7">>
\* the other three markers of lineage3
Pos2840999 == <<"2", "8", "4", "0", "9", "9", "9">>
Pos633562  == <<"6", "3", "3", "5", "6", "2">>
Pos3582694 == <<"3", "5", "8", "2", "6", "9", "4">>
PosAbc     == <<"a", "b", "c">>
PosEmpty   == <<>>

Chrom       == <<"c">>
Dot         == <<".">>
CommentLine == <<(<<"#", "c">>)>>
\* a blank line: "".split("\t") is [""]
BlankLine   == <<(<<>>)>>

SeqsUpTo(S, n) == UNION {[1..k -> S] : k \in 0..n}

\* single-sample files: what extract_snp_positions reads.  line.strip() leaves no
\* empty last column, so a data line carries the ID column after its position
SingleTokens == {Pos24007, Pos3482432, Pos1565566, Pos7, PosAbc, PosEmpty}

SingleLines == {CommentLine, <<Chrom>>} \cup {<<Chrom, t, Dot>> : t \in SingleTokens}

\* a file whose data lines carry the four markers of lineage3 and no other position
Lineage3File ==
  [exists |-> TRUE,
   lines  |-> <<CommentLine, <<Chrom, Pos2840999, Dot>>, <<Chrom, Pos633562, Dot>>,
                <<Chrom, Pos3582694, Dot>>, <<Chrom, Pos24007, Dot>>>>]

SingleFiles ==
  {[exists |-> FALSE, lines |-> <<>>], Lineage3File}
    \cup {[exists |-> TRUE, lines |-> ls] : ls \in SeqsUpTo(SingleLines, MaxLines)}

\* the sample name of the k-th path of args.vcf_files (the paths differ)
SampleNameOf(k) == <<"s1", "s2", "s3", "s4">>[k]

\* joint files: the "#CHROM" line process_joint_vcf finds, [] when it finds none
HeaderColumns ==
  <<"#CHROM", "POS", "ID", "REF", "ALT", "QUAL", "FILTER", "INFO", "FORMAT">>

Headers ==
  {<<>>} \cup {HeaderColumns \o s : s \in {<<>>, <<"S1", "S2">>, <<"S1", "S1">>}}

JointFiles == [exists : BOOLEAN, header : Headers]

\* position columns of joint rows that are integers
JointTokens == {Pos24007, Pos3876953}

Row(pos, fmt, samples) == <<Chrom, pos, Dot, Dot, Dot, Dot, Dot, Dot, fmt>> \o samples

FormatGtDp == <<"G", "T", ":", "D", "P">>
FormatDpGt == <<"D", "P", ":", "G", "T">>
FormatDp   == <<"D", "P">>

Field1 == <<"1", ":", "3", "0">>
Field0 == <<"0", ":", "3", "0">>

\* the lines of a joint file: a comment, a blank line, rows cut after the position,
\* rows with two sample columns under each FORMAT, a row with one sample column, a
\* row whose position is no integer
JointLines ==
  {CommentLine, BlankLine, <<Chrom, Pos24007>>, <<Chrom, PosAbc>>}
    \cup {Row(p, FormatGtDp, s) : p \in JointTokens, s \in [1..2 -> {Field1, Field0, Dot}]}
    \cup {Row(Pos24007, FormatDpGt, s) : s \in [1..2 -> {Field0, Dot}]}
    \cup {Row(Pos3876953, FormatDp, s) : s \in [1..2 -> {Field1, Field0}]}
    \cup {Row(Pos24007, FormatGtDp, <<Field1>>), Row(PosAbc, FormatGtDp, <<Field1, Field1>>)}

----------------------------------------------------------------------------
(* Extraction, single-sample mode (V5 and v1 share it line for line).      *)

\* mutant: the last line of the file is not read
RECURSIVE Positions_droplast(_)
Positions_droplast(lines) ==
  IF Len(lines) <= 1 THEN <<>>
  ELSE LET rest == Positions_droplast(Tail(lines))
           columns == Head(lines)
       IN  IF StartsWithHash(columns) THEN rest
           ELSE IF Len(columns) > 1 THEN <<columns[2]>> \o rest
           ELSE rest

\* extract_snp_positions: the second column of every line that has one
RECURSIVE Positions(_)
Positions(lines) ==
  IF lines = <<>> THEN <<>>
  ELSE LET rest == Positions(Tail(lines))
           columns == Head(lines)
       IN  IF StartsWithHash(columns) THEN rest
           ELSE IF Len(columns) > 1 THEN <<columns[2]>> \o rest
           ELSE rest

\* pd.read_csv(file, sep="\t", header=None)[0].astype(str) of the positions written
\* one per line: blank lines are skipped; no line left raises EmptyDataError; a
\* column of integers is parsed to int64 and printed back; any other column keeps
\* its text
ReadCsvColumn(positions) ==
  LET rows == SelectSeq(positions, LAMBDA t : t # <<>>)
  IN  IF rows = <<>> THEN [raises |-> TRUE, values |-> {}]
      ELSE IF \A i \in 1..Len(rows) : IntParses(rows[i])
      THEN [raises |-> FALSE, values |-> {IntToStr(ParseInt(rows[i])) : i \in 1..Len(rows)}]
      ELSE [raises |-> FALSE, values |-> Range(rows)]

\* process_vcf up to the int conversion: kind is "None" (return None, after catching
\* the ValueError of int() if exc says so), "raise" (an exception leaves process_vcf)
\* or "ok" (sample_snps is snps)
ExtractSingle(file) ==
  LET positions == Positions(file.lines)
      column    == ReadCsvColumn(positions)
  IN  IF ~file.exists \/ positions = <<>>
      THEN [kind |-> "None", exc |-> "none", snps |-> {}]
      ELSE IF column.raises
      THEN [kind |-> "raise", exc |-> "EmptyDataError", snps |-> {}]
      ELSE IF \E t \in column.values : ~IntParses(t)
      THEN [kind |-> "None", exc |-> "ValueError", snps |-> {}]
      ELSE [kind |-> "ok", exc |-> "none", snps |-> {ParseInt(t) : t \in column.values}]

----------------------------------------------------------------------------
(* Extraction, joint mode.                                                 *)

\* header[9:]
SampleNames(hdr) == IF Len(hdr) > 9 THEN SubSeq(hdr, 10, Len(hdr)) ELSE <<>>

\* mutant: the genotype always taken from the first sub-field
GtIndex_first(format_fields) == 0

\* format_fields.index("GT"), 0 when "GT" is no FORMAT sub-field
GtIndex(format_fields) ==
  IF \E i \in 1..Len(format_fields) : format_fields[i] = <<"G", "T">>
  THEN (CHOOSE i \in 1..Len(format_fields) :
          /\ format_fields[i] = <<"G", "T">>
          /\ \A j \in 1..(i - 1) : format_fields[j] # <<"G", "T">>) - 1
  ELSE 0

\* the loop over enumerate(sample_names, start=9), from the k-th sample on
RECURSIVE SampleLoop(_, _, _, _, _, _)
SampleLoop(snps, sample_names, fields, gt_index, pos, k) ==
  IF k > Len(sample_names) THEN [exc |-> "none", snps |-> snps]
  ELSE IF Len(fields) < 9 + k THEN [exc |-> "IndexError", snps |-> snps]
  ELSE LET genotype_info == Split(fields[9 + k], ":")
           sample == sample_names[k]
       IN  IF gt_index >= Len(genotype_info)
           THEN SampleLoop(snps, sample_names, fields, gt_index, pos, k + 1)
           ELSE LET genotype == genotype_info[gt_index + 1]
                IN  IF genotype # <<"0">> /\ genotype # <<".">>
                    THEN SampleLoop([snps EXCEPT ![sample] = @ \cup {pos}],
                                    sample_names, fields, gt_index, pos, k + 1)
                    ELSE SampleLoop(snps, sample_names, fields, gt_index, pos, k + 1)

\* mutant: a row that is too short is skipped like a row with a malformed position
ProcessRow_lenient(snps, sample_names, fields) ==
  IF Len(fields) < 9 + Len(sample_names) THEN [exc |-> "ValueError", snps |-> snps]
  ELSE IF ~IntParses(fields[2]) THEN [exc |-> "ValueError", snps |-> snps]
  ELSE SampleLoop(snps, sample_names, fields, GtIndex(Split(fields[9], ":")),
                  ParseInt(fields[2]), 1)

\* mutant: the ValueError of int(fields[1]) is not caught and leaves the row loop
ProcessRow_uncaught(snps, sample_names, fields) ==
  IF Len(fields) < 2 THEN [exc |-> "IndexError", snps |-> snps]
  ELSE IF ~IntParses(fields[2]) THEN [exc |-> "UncaughtValueError", snps |-> snps]
  ELSE IF Len(fields) < 9 THEN [exc |-> "IndexError", snps |-> snps]
  ELSE SampleLoop(snps, sample_names, fields, GtIndex(Split(fields[9], ":")),
                  ParseInt(fields[2]), 1)

\* the body of the row loop for one data line: exc "ValueError" is the caught one of
\* int(fields[1]) (the row is skipped), exc "IndexError" leaves process_joint_vcf
ProcessRow(snps, sample_names, fields) ==
  IF Len(fields) < 2 THEN [exc |-> "IndexError", snps |-> snps]
  ELSE IF ~IntParses(fields[2]) THEN [exc |-> "ValueError", snps |-> snps]
  ELSE IF Len(fields) < 9 THEN [exc |-> "IndexError", snps |-> snps]
  ELSE SampleLoop(snps, sample_names, fields, GtIndex(Split(fields[9], ":")),
                  ParseInt(fields[2]), 1)

----------------------------------------------------------------------------
(* The state machine.                                                      *)

NoDict == [s \in {} |-> {}]
NoFile == [exists |-> FALSE, lines |-> <<>>]
\* the combined report: whether the file was written, the records it holds, and
\* where main gave a "no results" notice ("none", "console" or "file")
NoReport == [written |-> FALSE, rows |-> <<>>, notice |-> "none"]

BuiltinCatalog(v) ==
  IF v = "v4" THEN lineage_references_v4
  ELSE IF v = "V5" THEN lineage_references_V5
  ELSE lineage_references_v1

InitWith(refs) ==
  /\ variant \in {"v1", "V5", "v4"}
  /\ lineage_references = refs[variant]
  /\ nfiles \in 1..MaxFiles
  /\ idx = 0
  /\ pc = "main"
  /\ vcf_file = NoFile
  /\ header = <<>>
  /\ line = <<>>
  /\ sample_snps = NoDict
  /\ lineage_probabilities = <<>>
  /\ results = <<>>
  /\ all_results = <<>>
  /\ exc = "none"
  /\ combined = NoReport

\* main() passes its own dict literal
Init == InitWith([v \in {"v1", "V5", "v4"} |-> BuiltinCatalog(v)])

\* process_vcf and process_joint_vcf take the catalog as a parameter: callers that
\* pass another one, among them one with a lineage that has no marker
LibCatalogs ==
  {<<[lineage |-> "lineageA", snp_set |-> {}],
     [lineage |-> "lineageB", snp_set |-> {24007, 3482432}],
     [lineage |-> "lineageC", snp_set |-> {24007, 3876953, 8, 9}]>>,
   <<[lineage |-> "lineageC", snp_set |-> {24007, 3876953}],
     [lineage |-> "lineageA", snp_set |-> {7}],
     [lineage |-> "lineageB", snp_set |-> {24007}]>>}

InitLib == \E c \in LibCatalogs : InitWith([v \in {"v1", "V5", "v4"} |-> c])

\* ---- lineage_predictor_v4.py ------------------------------------------

\* main's loop calls process_joint_vcf, which opens the file and looks for the header
V4Open ==
  /\ variant = "v4" /\ pc = "main" /\ idx < nfiles
  /\ \E f \in JointFiles :
       IF ~f.exists \/ f.header = <<>>
       THEN /\ results' = <<>>
            /\ idx' = idx + 1
            /\ header' = <<>>
            /\ sample_snps' = NoDict
            /\ UNCHANGED pc
       ELSE /\ header' = f.header
            /\ sample_snps' = [s \in Range(SampleNames(f.header)) |-> {}]
            /\ pc' = "rows"
            /\ UNCHANGED <<results, idx>>
  /\ exc' = "none"
  /\ UNCHANGED <<variant, lineage_references, nfiles, vcf_file, line,
                 lineage_probabilities, all_results, combined>>

\* "for line in f": the row loop takes the next line of the file
V4Read ==
  /\ variant = "v4" /\ pc = "rows"
  /\ \E ln \in JointLines : line' = ln
  /\ pc' = "row"
  /\ UNCHANGED <<variant, lineage_references, nfiles, idx, vcf_file, header,
                 sample_snps, lineage_probabilities, results, all_results, exc, combined>>

\* the body of the row loop; an IndexError leaves process_joint_vcf and is caught
\* by main, which goes on to the next file
V4Row ==
  /\ variant = "v4" /\ pc = "row"
  /\ line' = <<>>
  /\ IF StartsWithHash(line)
     THEN /\ pc' = "rows"
          /\ UNCHANGED <<sample_snps, idx, exc, header>>
     ELSE LET r == ProcessRow(sample_snps, SampleNames(header), line)
          IN  IF r.exc = "none"
              THEN /\ sample_snps' = r.snps
                   /\ pc' = "rows"
                   /\ UNCHANGED <<idx, exc, header>>
              ELSE IF r.exc = "ValueError"
              THEN /\ exc' = r.exc
                   /\ pc' = "rows"
                   /\ UNCHANGED <<sample_snps, idx, header>>
              ELSE /\ exc' = r.exc
                   /\ sample_snps' = NoDict
                   /\ header' = <<>>
                   /\ pc' = "main"
                   /\ idx' = idx + 1
  /\ UNCHANGED <<variant, lineage_references, nfiles, vcf_file,
                 lineage_probabilities, results, all_results, combined>>

\* the end of the file: score every sample, return results, main extends all_results
V4Score ==
  /\ variant = "v4" /\ pc = "rows"
  /\ results' = ResultsV4(lineage_references, sample_snps, SampleNames(header))
  /\ lineage_probabilities' =
       IF results' = <<>> THEN <<>> ELSE results'[Len(results')].probabilities
  /\ all_results' = IF results' # <<>> THEN all_results \o results' ELSE all_results
  /\ pc' = "main"
  /\ idx' = idx + 1
  /\ UNCHANGED <<variant, lineage_references, nfiles, vcf_file, header, line,
                 sample_snps, exc, combined>>

\* main after the loop: the combined table, or print("No results to save.")
V4Save ==
  /\ variant = "v4" /\ pc = "main" /\ idx = nfiles
  /\ combined' = IF all_results # <<>>
                 THEN [written |-> TRUE, rows |-> all_results, notice |-> "none"]
                 ELSE [written |-> FALSE, rows |-> <<>>, notice |-> "console"]
  /\ pc' = "done"
  /\ UNCHANGED <<variant, lineage_references, nfiles, idx, vcf_file, header, line,
                 sample_snps, lineage_probabilities, results, all_results, exc>>

\* ---- lineage_predictorV5.py ------------------------------------------

\* main's loop takes the next path of args.vcf_files and calls process_vcf
V5Open ==
  /\ variant = "V5" /\ pc = "main" /\ idx < nfiles
  /\ \E f \in SingleFiles : vcf_file' = f
  /\ pc' = "extract"
  /\ exc' = "none"
  /\ UNCHANGED <<variant, lineage_references, nfiles, idx, header, line, sample_snps,
                 lineage_probabilities, results, all_results, combined>>

\* process_vcf up to the int conversion; main has no try, so an exception ends the run
V5Extract ==
  /\ variant = "V5" /\ pc = "extract"
  /\ LET e == ExtractSingle(vcf_file)
     IN  /\ exc' = e.exc
         /\ IF e.kind = "ok"
            THEN /\ sample_snps' = [s \in {SampleNameOf(idx + 1)} |-> e.snps]
                 /\ pc' = "score"
                 /\ UNCHANGED <<results, idx>>
            ELSE IF e.kind = "None"
            THEN /\ results' = <<>>
                 /\ idx' = idx + 1
                 /\ pc' = "main"
                 /\ sample_snps' = NoDict
            ELSE /\ pc' = "aborted"
                 /\ sample_snps' = NoDict
                 /\ UNCHANGED <<results, idx>>
  /\ vcf_file' = NoFile
  /\ UNCHANGED <<variant, lineage_references, nfiles, header, line,
                 lineage_probabilities, all_results, combined>>

\* process_vcf from the scoring loop on, and main's append
V5Score ==
  /\ variant = "V5" /\ pc = "score"
  /\ IF DividesByZero(lineage_references)
     THEN /\ exc' = "ZeroDivisionError"
          /\ pc' = "aborted"
          /\ UNCHANGED <<lineage_probabilities, results, all_results, idx>>
     ELSE /\ lineage_probabilities' =
               ScoresV5(lineage_references, sample_snps[SampleNameOf(idx + 1)])
          /\ results' = <<OutputTextV5(SampleNameOf(idx + 1), lineage_probabilities')>>
          /\ all_results' = all_results \o results'
          /\ pc' = "main"
          /\ idx' = idx + 1
          /\ UNCHANGED exc
  /\ UNCHANGED <<variant, lineage_references, nfiles, vcf_file, header, line,
                 sample_snps, combined>>

\* main after the loop: the combined file is written whatever all_results holds
V5Save ==
  /\ variant = "V5" /\ pc = "main" /\ idx = nfiles
  /\ combined' = [written |-> TRUE, rows |-> all_results, notice |-> "none"]
  /\ pc' = "done"
  /\ UNCHANGED <<variant, lineage_references, nfiles, idx, vcf_file, header, line,
                 sample_snps, lineage_probabilities, results, all_results, exc>>

\* ---- lineage_predictor_v1.py ------------------------------------------

\* main's loop takes the next path of args.vcf_files and calls process_vcf
V1Open ==
  /\ variant = "v1" /\ pc = "main" /\ idx < nfiles
  /\ \E f \in SingleFiles : vcf_file' = f
  /\ pc' = "extract"
  /\ exc' = "none"
  /\ UNCHANGED <<variant, lineage_references, nfiles, idx, header, line, sample_snps,
                 lineage_probabilities, results, all_results, combined>>

\* process_vcf up to the int conversion; main has no try, so an exception ends the run
V1Extract ==
  /\ variant = "v1" /\ pc = "extract"
  /\ LET e == ExtractSingle(vcf_file)
     IN  /\ exc' = e.exc
         /\ IF e.kind = "ok"
            THEN /\ sample_snps' = [s \in {SampleNameOf(idx + 1)} |-> e.snps]
                 /\ pc' = "score"
                 /\ UNCHANGED <<results, idx>>
            ELSE IF e.kind = "None"
            THEN /\ results' = <<>>
                 /\ idx' = idx + 1
                 /\ pc' = "main"
                 /\ sample_snps' = NoDict
            ELSE /\ pc' = "aborted"
                 /\ sample_snps' = NoDict
                 /\ UNCHANGED <<results, idx>>
  /\ vcf_file' = NoFile
  /\ UNCHANGED <<variant, lineage_references, nfiles, header, line,
                 lineage_probabilities, all_results, combined>>

\* process_vcf from the scoring loop on, and main's append
V1Score ==
  /\ variant = "v1" /\ pc = "score"
  /\ IF DividesByZero(lineage_references)
     THEN /\ exc' = "ZeroDivisionError"
          /\ pc' = "aborted"
          /\ UNCHANGED <<lineage_probabilities, results, all_results, idx>>
     ELSE /\ lineage_probabilities' =
               ScoresV1(lineage_references, sample_snps[SampleNameOf(idx + 1)])
          /\ results' = <<RecordV1(SampleNameOf(idx + 1), lineage_probabilities')>>
          /\ all_results' = all_results \o results'
          /\ pc' = "main"
          /\ idx' = idx + 1
          /\ UNCHANGED exc
  /\ UNCHANGED <<variant, lineage_references, nfiles, vcf_file, header, line,
                 sample_snps, combined>>

\* main after the loop: the combined table only when all_results is not empty
V1Save ==
  /\ variant = "v1" /\ pc = "main" /\ idx = nfiles
  /\ combined' = IF all_results # <<>>
                 THEN [written |-> TRUE, rows |-> all_results, notice |-> "none"]
                 ELSE NoReport
  /\ pc' = "done"
  /\ UNCHANGED <<variant, lineage_references, nfiles, idx, vcf_file, header, line,
                 sample_snps, lineage_probabilities, results, all_results, exc>>

Next ==
  \/ V4Open \/ V4Read \/ V4Row \/ V4Score \/ V4Save
  \/ V5Open \/ V5Extract \/ V5Score \/ V5Save
  \/ V1Open \/ V1Extract \/ V1Score \/ V1Save

Spec == Init /\ [][Next]_vars

SpecLib == InitLib /\ [][Next]_vars

\* ---- the scoring and classification of v4 and v1 on their own ----------------

RECURSIVE SetToSeq(_)
SetToSeq(S) ==
  IF S = {} THEN <<>>
  ELSE LET x == CHOOSE y \in S : TRUE IN <<x>> \o SetToSeq(S \ {x})

\* a chain of subsets of S, one of every size from 0 to |S|
Prefixes(S) == LET q == SetToSeq(S) IN {Range(SubSeq(q, 1, k)) : k \in 0..Len(q)}

\* the state in which the scoring loop is entered, with one sample whose variant
\* set the extraction has built: process_joint_vcf at "results = []", process_vcf
\* at "lineage_probabilities = {}".  The samples give every two lineages of the
\* catalog every pair of matching counts a sample can give them: any number of the
\* markers of the one alone, of the other alone, and of both
InitRound ==
  /\ variant \in {"v4", "v1"}
  /\ lineage_references = BuiltinCatalog(variant)
  /\ nfiles = 1
  /\ idx = 0
  /\ pc = IF variant = "v4" THEN "rows" ELSE "score"
  /\ vcf_file = NoFile
  /\ header = IF variant = "v4" THEN HeaderColumns \o <<"S1">> ELSE <<>>
  /\ line = <<>>
  /\ \E i, j \in 1..Len(lineage_references) :
       /\ i < j
       /\ LET A == lineage_references[i].snp_set
              B == lineage_references[j].snp_set
          IN  \E x \in Prefixes(A \ B), y \in Prefixes(B \ A), z \in Prefixes(A \cap B) :
                sample_snps = [s \in {IF variant = "v4" THEN "S1" ELSE SampleNameOf(1)}
                                 |-> x \cup y \cup z]
  /\ lineage_probabilities = <<>>
  /\ results = <<>>
  /\ all_results = <<>>
  /\ exc = "none"
  /\ combined = NoReport

NextRound == V4Score \/ V1Score

SpecRound == InitRound /\ [][NextRound]_vars

----------------------------------------------------------------------------
(* The claims.                                                             *)

\* C1: under the threshold policy (joint mode) the label of every record is
\* "unknown_lineage" when no lineage scores above 0, the lineage itself when exactly
\* one does, and otherwise "mixed isolate: " followed by the lineages that score
\* above 0 in lexicographic order, joined with ", ".
C1_Candidates(rec) ==
  {rec.probabilities[i].lineage :
     i \in {j \in 1..Len(rec.probabilities) : rec.probabilities[j].prob > 0}}

C1_Lexicographic(names) ==
  CHOOSE s \in [1..Cardinality(names) -> names] :
    \A i, j \in 1..Cardinality(names) : i < j => StrLess(s[i], s[j])

C1_ThresholdLabel ==
  variant = "v4" =>
    \A k \in 1..Len(results) :
      LET names == C1_Candidates(results[k])
      IN  results[k].Predicted_lineage =
            IF names = {} THEN "unknown_lineage"
            ELSE IF Cardinality(names) = 1 THEN CHOOSE n \in names : TRUE
            ELSE "mixed isolate: " \o Join(C1_Lexicographic(names), ", ")

\* a joint file scored with one unknown sample and one mixed sample whose lineages
\* stand in another order in the catalog (lineage1, lineage3, bovis)
C1_Witness ==
  /\ variant = "v4" /\ pc = "main" /\ Len(results) = 2
  /\ results[1].Predicted_lineage = "unknown_lineage"
  /\ results[2].Predicted_lineage = "mixed isolate: bovis, lineage1, lineage3"

\* C2: under the best-match policy, whenever every lineage score is 0 the label is
\* exactly "unknown lineage", in V5 and in v1.
C2_UnknownLineageLabel ==
  (variant \in {"V5", "v1"} /\ results # <<>>) =>
    ((\A i \in 1..Len(results[1].probabilities) : results[1].probabilities[i].prob = 0)
       => results[1].Predicted_lineage = "unknown lineage")

\* C3: under the best-match policy, when the maximum score is above 0 the label is
\* a lineage whose score is the maximum, and among several such the first one in
\* catalog order.
C3_Exceeds(a, b) ==
  IF variant = "V5" THEN a.num * b.den > b.num * a.den ELSE a.prob > b.prob

C3_Positive(a) == IF variant = "V5" THEN a.num > 0 ELSE a.prob > 0

C3_BestMatchFirstMax ==
  (variant \in {"V5", "v1"} /\ results # <<>>) =>
    LET lp == lineage_probabilities
    IN  (\E i \in 1..Len(lp) : C3_Positive(lp[i])) =>
          \E i \in 1..Len(lp) :
            /\ results[1].Predicted_lineage = lp[i].lineage
            /\ \A j \in 1..Len(lp) : ~C3_Exceeds(lp[j], lp[i])
            /\ \A j \in 1..(i - 1) : C3_Exceeds(lp[i], lp[j])

\* V5 scored a sample on which l2_2_1 and l2_2_2 share the maximum, and chose l2_2_1
C3_Witness ==
  /\ variant = "V5" /\ pc = "main" /\ results # <<>>
  /\ results[1].Predicted_lineage = "l2_2_1"
  /\ \E i, j \in 1..Len(lineage_probabilities) :
       /\ lineage_probabilities[i].lineage = "l2_2_1"
       /\ lineage_probabilities[j].lineage = "l2_2_2"
       /\ lineage_probabilities[i].num > 0
       /\ lineage_probabilities[i].num = lineage_probabilities[j].num
       /\ lineage_probabilities[i].den = lineage_probabilities[j].den

\* C4: in joint mode, a data row with an integer position adds that position to a
\* sample's variant set if and only if a column of that sample holds a genotype
\* sub-field (at the index of "GT" in FORMAT, at index 0 when FORMAT has no "GT")
\* that exists and is neither "0" nor "."; a column with too few sub-fields adds
\* nothing and the other columns of the row are still processed.
C4_GenotypeIndex(fmt) ==
  LET ff == Split(fmt, ":")
      at == {i \in 1..Len(ff) : ff[i] = <<"G", "T">>}
  IN  IF at = {} THEN 0 ELSE (CHOOSE i \in at : \A j \in at : i <= j) - 1

C4_IsVariant(ln, k) ==
  LET info == Split(ln[9 + k], ":")
      g    == C4_GenotypeIndex(ln[9])
  IN  g < Len(info) /\ info[g + 1] \notin {<<"0">>, <<".">>}

C4_GenotypeRule ==
  [][(variant = "v4" /\ pc = "row" /\ pc' = "rows" /\ ~StartsWithHash(line)
        /\ IntParses(line[2]))
       => LET names == SampleNames(header)
          IN  /\ DOMAIN sample_snps' = DOMAIN sample_snps
              /\ \A s \in DOMAIN sample_snps :
                   sample_snps'[s] =
                     sample_snps[s] \cup
                       (IF \E k \in 1..Len(names) : names[k] = s /\ C4_IsVariant(line, k)
                        THEN {ParseInt(line[2])} ELSE {})]_vars

\* rows were read under header S1, S2 that left position 24007 with S1 alone and
\* position 3876953 with S2 alone
C4_Witness ==
  /\ variant = "v4" /\ pc = "rows"
  /\ DOMAIN sample_snps = {"S1", "S2"}
  /\ sample_snps["S1"] = {24007}
  /\ sample_snps["S2"] = {3876953}

\* C5: every record holds, for every lineage of the catalog, the score
\* 100 * |MarkerSet /\ SampleVariantSet| / |MarkerSet| (to the two decimals stored);
\* no lineage is left out, and an empty sample set scores 0 everywhere.
C5_Nearest(h, m, n) ==
  2 * (IF h * n >= 10000 * m THEN h * n - 10000 * m ELSE 10000 * m - h * n) <= n

C5_RecordScores(rec, S) ==
  /\ \A i \in 1..Len(lineage_references) :
       \E e \in 1..Len(rec.probabilities) :
         /\ rec.probabilities[e].lineage = lineage_references[i].lineage
         /\ C5_Nearest(rec.probabilities[e].prob,
                       Cardinality(lineage_references[i].snp_set \cap S),
                       Cardinality(lineage_references[i].snp_set))
  /\ S = {} => \A e \in 1..Len(rec.probabilities) : rec.probabilities[e].prob = 0

C5_ScoresComplete ==
  [][((pc = "rows" \/ pc = "score") /\ pc' = "main")
       => /\ {results'[k].Sample_Name : k \in 1..Len(results')} = DOMAIN sample_snps
          /\ \A k \in 1..Len(results') :
               C5_RecordScores(results'[k], sample_snps[results'[k].Sample_Name])
          /\ variant = "V5" =>
               \A i \in 1..Len(lineage_references) :
                 /\ lineage_probabilities'[i].lineage = lineage_references[i].lineage
                 /\ lineage_probabilities'[i].den > 0
                 /\ lineage_probabilities'[i].num
                      * Cardinality(lineage_references[i].snp_set)
                    = lineage_probabilities'[i].den
                      * Cardinality(lineage_references[i].snp_set
                                      \cap sample_snps[SampleNameOf(idx + 1)])]_vars

\* a joint file scored with the empty set for S1 (all scores 0) and one lineage3
\* marker of four for S2 (25.00%)
C5_Witness ==
  /\ variant = "v4" /\ pc = "main" /\ Len(results) = 2
  /\ DOMAIN sample_snps = {"S1", "S2"}
  /\ sample_snps["S1"] = {} /\ sample_snps["S2"] = {24007}
  /\ \A e \in 1..Len(results[1].probabilities) : results[1].probabilities[e].prob = 0
  /\ \E e \in 1..Len(results[2].probabilities) :
       /\ results[2].probabilities[e].lineage = "lineage3"
       /\ results[2].probabilities[e].prob = 2500

\* C6: with a catalog that holds a lineage with an empty marker set, scoring fails
\* in no pipeline and that lineage scores 0.
C6_EmptyMarkerSetScoresZero ==
  /\ exc # "ZeroDivisionError"
  /\ \A k \in 1..Len(results) :
       \A i \in 1..Len(lineage_references) :
         lineage_references[i].snp_set = {} =>
           \A e \in 1..Len(results[k].probabilities) :
             results[k].probabilities[e].lineage = lineage_references[i].lineage
               => results[k].probabilities[e].prob = 0

\* C7: no failure of one file aborts the batch: the run never stops at a file that
\* has later files behind it, and main reaches its end having consumed every path of
\* args.vcf_files.
C7_BatchNeverAborts ==
  /\ ~(pc = "aborted" /\ idx + 1 < nfiles)
  /\ pc = "done" => idx = nfiles

\* C8: in joint mode a data row whose position is no integer is skipped: it changes
\* no sample's variant set and nothing else of the run, and the row loop goes on
\* with the next line from the state it had before that row.
C8_MalformedRowSkipped ==
  [][(variant = "v4" /\ pc = "row" /\ ~StartsWithHash(line) /\ Len(line) >= 2
        /\ ~IntParses(line[2]))
       => /\ pc' = "rows"
          /\ UNCHANGED <<sample_snps, header, idx, results, all_results, nfiles>>]_vars

\* a row with a malformed position was skipped in a file whose other rows gave S1
\* both positions
C8_Witness ==
  /\ variant = "v4" /\ pc = "rows" /\ exc = "ValueError"
  /\ DOMAIN sample_snps = {"S1", "S2"}
  /\ sample_snps["S1"] = {24007, 3876953}

\* C9: in single-sample mode a file with a position field that fails integer
\* parsing, or with no extractable position, produces no record, raises nothing to
\* main and main goes on with the next file.
C9_FailsExtraction(f) ==
  LET data == SelectSeq(f.lines, LAMBDA ln : ~StartsWithHash(ln) /\ Len(ln) > 1)
  IN  data = <<>> \/ \E i \in 1..Len(data) : ~IntParses(data[i][2])

C9_NoRecordForBadFile ==
  [][(pc = "extract" /\ vcf_file.exists /\ C9_FailsExtraction(vcf_file))
       => /\ pc' = "main"
          /\ idx' = idx + 1
          /\ results' = <<>>
          /\ all_results' = all_results]_vars

\* C10: all_results only grows at its end, and a joint file that is processed to
\* its end adds exactly one record per sample column of its "#CHROM" line, in
\* column order; a single-sample file that is scored adds one record; no other
\* step changes all_results.
C10_IsPrefix(a, b) == Len(a) <= Len(b) /\ \A i \in 1..Len(a) : a[i] = b[i]

C10_OneRecordPerColumn ==
  [][LET added == Len(all_results') - Len(all_results)
         new(k) == all_results'[Len(all_results) + k]
         names == SampleNames(header)
     IN  /\ C10_IsPrefix(all_results, all_results')
         /\ (pc = "rows" /\ pc' = "main") =>
              /\ added = Len(names)
              /\ \A k \in 1..Len(names) : new(k).Sample_Name = names[k]
         /\ (pc = "score" /\ pc' = "main") =>
              added = 1 /\ new(1).Sample_Name = SampleNameOf(idx + 1)
         /\ ~(pc \in {"rows", "score"} /\ pc' = "main") => added = 0]_vars

\* C11: when main ends with no record in all_results, a combined report file has
\* been written and the "no results" notice is in that file: the file is neither
\* absent nor empty.
C11_NoResultsNotice ==
  (pc = "done" /\ all_results = <<>>) =>
    (combined.written /\ combined.notice = "file")

\* C12: with the built-in catalog, a single-sample file whose positions are exactly
\* the lineage3 markers {2840999, 633562, 3582694, 24007} is extracted to that set
\* and scored 100.00% for lineage3, 0.00% for every other lineage of the catalog,
\* with the label lineage3, in V5 and in v1.
C12_Lineage3Markers == {2840999, 633562, 3582694, 24007}

C12_Lineage3EndToEnd ==
  [][/\ (pc = "extract" /\ vcf_file = Lineage3File)
          => /\ pc' = "score"
             /\ sample_snps' = [s \in {SampleNameOf(idx + 1)} |-> C12_Lineage3Markers]
     /\ (pc = "score" /\ sample_snps[SampleNameOf(idx + 1)] = C12_Lineage3Markers)
          => /\ pc' = "main"
             /\ Len(results') = 1
             /\ results'[1].Predicted_lineage = "lineage3"
             /\ {results'[1].probabilities[e].lineage :
                   e \in 1..Len(results'[1].probabilities)}
                  = {lineage_references[i].lineage : i \in 1..Len(lineage_references)}
             /\ \A e \in 1..Len(results'[1].probabilities) :
                  results'[1].probabilities[e].prob =
                    IF results'[1].probabilities[e].lineage = "lineage3"
                    THEN 10000 ELSE 0
             /\ all_results' = Append(all_results, results'[1])]_vars

\* v1 scored the lineage3 file as the second file of a batch
C12_Witness ==
  /\ variant = "v1" /\ pc = "main" /\ idx = 2 /\ results # <<>>
  /\ sample_snps["s2"] = C12_Lineage3Markers
  /\ results[1].Predicted_lineage = "lineage3"
  /\ \E e \in 1..Len(results[1].probabilities) :
       /\ results[1].probabilities[e].lineage = "lineage3"
       /\ results[1].probabilities[e].prob = 10000

\* C13 (as amended): in joint mode a file adds to all_results either one record for
\* every sample named in its header or nothing; a data row without a position column
\* (a blank line, a single column), or with an integer position and fewer than 9
\* columns or fewer sample columns than the header, ends the file with nothing added,
\* whatever was read before it; a short row whose position is no integer is skipped
\* and the file goes on.
C13_AllOrNothingStep ==
  (variant = "v4" /\ idx' # idx) =>
    LET added == SubSeq(all_results', Len(all_results) + 1, Len(all_results'))
    IN  /\ idx' = idx + 1
        /\ SubSeq(all_results', 1, Len(all_results)) = all_results
        /\ \/ added = <<>>
           \/ /\ {added[k].Sample_Name : k \in 1..Len(added)} = Range(SampleNames(header))
              /\ Len(added) = Cardinality(Range(SampleNames(header)))

C13_Discarded ==
  /\ pc' = "main"
  /\ idx' = idx + 1
  /\ all_results' = all_results
  /\ results' = results

C13_AllOrNothing ==
  [][/\ C13_AllOrNothingStep
     /\ (variant = "v4" /\ pc = "row" /\ ~StartsWithHash(line))
          => /\ (Len(line) < 2
                  \/ (IntParses(line[2]) /\ Len(line) < 9 + Len(SampleNames(header))))
                 => C13_Discarded
             /\ (Len(line) >= 2 /\ ~IntParses(line[2]))
                 => (pc' = "rows" /\ idx' = idx)]_vars

\* C13 as stated: every data row that is blank, has fewer than 9 columns or has
\* fewer sample columns than the header makes the file contribute nothing (a file
\* whose header names no sample contributes nothing in any case).
C13_AnyShortRowDiscards ==
  [][/\ C13_AllOrNothingStep
     /\ (variant = "v4" /\ pc = "row" /\ ~StartsWithHash(line)
           /\ SampleNames(header) # <<>>
           /\ (line = BlankLine \/ Len(line) < 9
                 \/ Len(line) < 9 + Len(SampleNames(header))))
          => C13_Discarded]_vars

\* the second joint file of a batch was given up on an IndexError: all_results
\* holds the two records of the first file and nothing of the second
C13_Witness ==
  /\ variant = "v4" /\ pc = "main" /\ idx = 2 /\ exc = "IndexError"
  /\ Len(all_results) = 2
  /\ all_results[1].Sample_Name = "S1" /\ all_results[2].Sample_Name = "S2"

\* C14: with the built-in catalogs, classifying on the scores formatted to two
\* decimals (v4, v1) gives what the exact scores give: the lineages with a rounded
\* score above 0 are those with an exact score above 0, any two of them compare
\* by rounded score as they do by exact score, and so the first lineage with the
\* greatest rounded score is the first with the greatest exact score; v1's label is
\* that lineage.
C14_Matches ==
  [i \in 1..Len(lineage_references) |->
     Cardinality(lineage_references[i].snp_set \cap sample_snps[results[1].Sample_Name])]

C14_Size == [i \in 1..Len(lineage_references) |-> Cardinality(lineage_references[i].snp_set)]

C14_Rounded == [i \in 1..Len(results[1].probabilities) |-> results[1].probabilities[i].prob]

C14_ExactLess(m, sz, i, j) == m[i] * sz[j] < m[j] * sz[i]

C14_FirstMaxExact(m, sz) ==
  CHOOSE i \in DOMAIN m :
    /\ \A j \in DOMAIN m : ~C14_ExactLess(m, sz, i, j)
    /\ \A j \in 1..(i - 1) : C14_ExactLess(m, sz, j, i)

C14_FirstMaxRounded(r) ==
  CHOOSE i \in DOMAIN r :
    /\ \A j \in DOMAIN r : r[j] <= r[i]
    /\ \A j \in 1..(i - 1) : r[j] < r[i]

C14_RoundingKeepsOutcome ==
  (variant \in {"v4", "v1"} /\ pc = "main" /\ results # <<>>) =>
    LET n    == Len(lineage_references)
        m    == C14_Matches
        sz   == C14_Size
        r    == C14_Rounded
        best == C14_FirstMaxExact(m, sz)
    IN  /\ Len(r) = n
        /\ \A i \in 1..n : results[1].probabilities[i].lineage = lineage_references[i].lineage
        /\ \A i \in 1..n : sz[i] \in 1..50
        /\ {i \in 1..n : r[i] > 0} = {i \in 1..n : m[i] > 0}
        /\ \A i, j \in {k \in 1..n : m[k] > 0} :
             (r[i] < r[j]) <=> C14_ExactLess(m, sz, i, j)
        /\ C14_FirstMaxRounded(r) = best
        /\ (variant = "v1" /\ m[best] > 0) =>
             results[1].Predicted_lineage = lineage_references[best].lineage
        /\ (variant = "v4" /\ Cardinality({i \in 1..n : m[i] > 0}) = 1) =>
             results[1].Predicted_lineage = lineage_references[best].lineage

\* v1 scored a sample with one marker of lineage8 (1 of 50, 2.00%) and one of orygis
\* (1 of 48, 2.08%), whose scores differ in the second decimal only, and chose orygis
C14_Witness ==
  /\ variant = "v1" /\ pc = "main" /\ results # <<>>
  /\ results[1].Predicted_lineage = "orygis"
  /\ \E i, j \in 1..Len(results[1].probabilities) :
       /\ results[1].probabilities[i].lineage = "lineage8"
       /\ results[1].probabilities[i].prob = 200
       /\ results[1].probabilities[j].lineage = "orygis"
       /\ results[1].probabilities[j].prob = 208

====
